---- MODULE Spec2Model ----
(***************************************************************************)
(* Single pile analysis: soil profile interpolation (materials.py), the    *)
(* constitutive laws of the tip and friction springs (materials.py), the   *)
(* pile model builder and its incremental analysis (fea_model.py), the     *)
(* process-wide tag counter (tag_generator.py) and the calibrator          *)
(* (calibrator.py).  The OpenSees engine (openseespy.opensees, "ops") is   *)
(* an external collaborator: it is modelled by the state its commands      *)
(* build (nodes, restraints, materials, elements, load) and by a           *)
(* nondeterministic outcome of every load increment.                       *)
(*                                                                         *)
(* Numbers.  Python floats are modelled by exact rationals [n, d] (d > 0,  *)
(* reduced); rounding is not modelled.  The float results that are not     *)
(* numbers (nan, inf) are modelled where the code can produce them (the    *)
(* interpolation of the cost function).                                    *)
(***************************************************************************)
EXTENDS Integers, Sequences, FiniteSets, TLC

VARIABLES
    soil_profile,   \* the SoilProfile (static input): a sequence of SoilLayer
    soil_query,     \* the last depth query made on the profile and its outcome
    tip_law,        \* the last tip law table built from given inputs
    friction_law,   \* the last friction law table built from given inputs
    counter,        \* tag_generator.counter
    ops,            \* the engine's model
    piles,          \* the Pile objects, by identity
    build,          \* the Pile constructor in progress: its position
    calibrator,     \* the Calibrator object
    run,            \* the last call of analyze on the newest Pile, what it returned
    eval            \* the last call of Calibrator.cost and what it returned

vars == <<soil_profile, soil_query, tip_law, friction_law, counter, ops, piles,
          build, calibrator, run, eval>>

-----------------------------------------------------------------------------
(* Bounds of the model *)

\* depth of the deepest layer boundary of an enumerated soil profile
MaxDepth == 3
\* largest number_of_node of a Pile
MaxNodes == 3
\* number of Pile constructions in a behaviour
MaxBuilds == 2
\* number of times one Pile is analyzed in a behaviour
MaxRuns == 2
\* number_of_steps of every Pile (300 by default in the code); at least 2
NumberOfSteps == 2
\* largest tip stiffness k1b of an enumerated tip law
MaxK1b == 3
\* largest head displacement increment the engine reports for one increment
MaxStepDisp == 1
\* number of sampled displacements of a friction law (50 in the code)
SampleCount == 3
\* largest pile radius of an enumerated friction law, in tenths
MaxRadius == 2

-----------------------------------------------------------------------------
(* Exact rationals for Python floats *)

Abs(i) == IF i < 0 THEN -i ELSE i

RECURSIVE Gcd(_, _)
Gcd(a, b) == IF b = 0 THEN a ELSE Gcd(b, a % b)

\* the reduced fraction n/d, d # 0
Rat(n, d) ==
    LET g == Gcd(Abs(n), Abs(d))
        s == IF d < 0 THEN -1 ELSE 1
    IN  [n |-> (s * n) \div g, d |-> (s * d) \div g]

FromInt(i) == [n |-> i, d |-> 1]
RAdd(x, y) == Rat(x.n * y.d + y.n * x.d, x.d * y.d)
RSub(x, y) == Rat(x.n * y.d - y.n * x.d, x.d * y.d)
RMul(x, y) == Rat(x.n * y.n, x.d * y.d)
RDiv(x, y) == Rat(x.n * y.d, x.d * y.n)
RLe(x, y) == x.n * y.d <= y.n * x.d
RLt(x, y) == x.n * y.d < y.n * x.d

RECURSIVE RSum(_)
RSum(s) == IF s = <<>> THEN FromInt(0) ELSE RAdd(Head(s), RSum(Tail(s)))

RECURSIVE SumSeq(_)
SumSeq(s) == IF s = <<>> THEN 0 ELSE Head(s) + SumSeq(Tail(s))

-----------------------------------------------------------------------------
(* materials.py: SoilLayer *)

\* SoilLayer.length
length(layer) == layer.up_depth - layer.bottom_depth

\* linear interpolation shared by SoilLayer.shear_modulus, poisson_ratio, tau_f
Interpolate(up, bottom, layer, depth) ==
    RAdd(FromInt(up),
         RMul(RDiv(FromInt(bottom - up),
                   FromInt(layer.bottom_depth - layer.up_depth)),
              RSub(depth, FromInt(layer.up_depth))))

layer_shear_modulus(layer, depth) ==
    Interpolate(layer.up_shear_modulus, layer.bottom_shear_modulus, layer, depth)

layer_poisson_ratio(layer, depth) ==
    Interpolate(layer.up_poisson_ratio, layer.bottom_poisson_ratio, layer, depth)

layer_tau_f(layer, depth) ==
    Interpolate(layer.up_tau_f, layer.bottom_tau_f, layer, depth)

(* materials.py: SoilProfile *)

\* SoilProfile.pile_length
profile_pile_length(profile) ==
    SumSeq([i \in 1..Len(profile) |-> length(profile[i])])

\* whether the layer's range holds the depth (the test of __find_layer)
Covers(layer, depth) ==
    /\ RLe(FromInt(layer.up_depth), depth)
    /\ RLe(depth, FromInt(layer.bottom_depth))

\* SoilProfile.__find_layer: the index of the first layer holding the depth,
\* 0 when the loop ends and the exception is raised
find_layer(profile, depth) ==
    LET hits == {i \in 1..Len(profile) : Covers(profile[i], depth)}
    IN  IF hits = {} THEN 0
        ELSE CHOOSE i \in hits : \A j \in hits : i <= j

\* the exception of __find_layer
LayerNotFound == [ok |-> FALSE, layer |-> 0, value |-> [n |-> 0, d |-> 0]]

\* SoilProfile.shear_modulus, poisson_ratio, tau_f: find the layer, delegate;
\* the exception of __find_layer is propagated
profile_query(profile, op, depth) ==
    LET i == find_layer(profile, depth)
    IN  IF i = 0 THEN LayerNotFound
        ELSE [ok |-> TRUE, layer |-> i,
              value |-> CASE op = "shear_modulus" -> layer_shear_modulus(profile[i], depth)
                          [] op = "poisson_ratio" -> layer_poisson_ratio(profile[i], depth)
                          [] op = "tau_f" -> layer_tau_f(profile[i], depth)]

\* SoilProfile.tip_shear_modulus
tip_shear_modulus(profile) ==
    profile_query(profile, "shear_modulus", FromInt(profile_pile_length(profile)))

\* SoilProfile.tip_poisson_ratio
tip_poisson_ratio(profile) ==
    profile_query(profile, "poisson_ratio", FromInt(profile_pile_length(profile)))

-----------------------------------------------------------------------------
(* Soil profiles: the valid layer stacks, contiguous from depth 0, every   *)
(* layer with up_depth < bottom_depth.                                     *)

\* a layer between two depths; the shear modulus grows with depth, the
\* Poisson ratio (in tenths) is constant and tau_f grows with depth
Layer(up, bottom, g) ==
    [up_depth |-> up, bottom_depth |-> bottom,
     up_shear_modulus |-> g, bottom_shear_modulus |-> g + (bottom - up),
     up_poisson_ratio |-> 5, bottom_poisson_ratio |-> 5,
     up_tau_f |-> 2 + up, bottom_tau_f |-> 2 + bottom]

\* the stack whose layer bottoms are the elements of cuts, in depth order
RECURSIVE Stack(_, _, _)
Stack(up, cuts, g) ==
    IF cuts = {} THEN <<>>
    ELSE LET b == CHOOSE c \in cuts : \A e \in cuts : c <= e
         IN  <<Layer(up, b, g)>> \o Stack(b, cuts \ {b}, g)

Profiles ==
    {Stack(0, cuts, g) : cuts \in (SUBSET (1..MaxDepth)) \ {{}}, g \in {4, 6}}

\* the depth of the bottom of the last layer
BottomDepth(profile) == profile[Len(profile)].bottom_depth

\* the sum of the layers' thicknesses
Thickness(profile) ==
    SumSeq([i \in 1..Len(profile) |-> profile[i].bottom_depth - profile[i].up_depth])

-----------------------------------------------------------------------------
(* fea_model.py: CalibrationParams.  Units of the integers: Rfb and Rfs in *)
(* tenths, Sbu in millimetres, alpha21 in hundredths.                      *)

\* CalibrationParams.from_array
from_array(args) ==
    [Rfb |-> args[1], Sbu |-> args[2], alpha21 |-> args[3], Rfs |-> args[4]]

\* CalibrationParams.from_default: Rfb=1.0, Sbu=5e-3, alpha21=0.01, Rfs=1.0
from_default == [Rfb |-> 10, Sbu |-> 5, alpha21 |-> 1, Rfs |-> 10]

\* the trial vectors of the optimizer, inside CalibrationParams.bounds
TrialVectors == {<<10, 5, 1, 10>>, <<8, 9, 50, 9>>}

\* the head loads a caller gives a Pile
Loads == {4, 6}

\* the measured curve (load_test_results): displacements and forces
TestDisplacements == <<0, 1, 2, 3>>
TestForces == <<0, 2, 3, 4>>

MaxOf(s) == CHOOSE m \in {s[i] : i \in DOMAIN s} : \A i \in DOMAIN s : s[i] <= m

-----------------------------------------------------------------------------
(* materials.py: PileTipMaterial, the tip law table.  k1b is the stiffness *)
(* without the corrective factor (a rational); Rfb in tenths, Sbu in       *)
(* millimetres, alpha21 in hundredths, as in CalibrationParams.            *)

\* PileTipMaterial.k1
k1(k1b, Rfb) == RDiv(k1b, Rat(Rfb, 10))

\* PileTipMaterial.k2
k2(k1b, Rfb, alpha21) == RMul(k1(k1b, Rfb), Rat(alpha21, 100))

\* PileTipMaterial.__get_strains: np.array([0.0, self.Sbu, 0.1])
get_strains(Sbu) == <<FromInt(0), Rat(Sbu, 1000), Rat(1, 10)>>

\* PileTipMaterial.__get_stresses
MutGetStressesDropFirstBranch(k1b, Rfb, Sbu, alpha21) ==
    <<FromInt(0),
      RMul(Rat(Sbu, 1000), k1(k1b, Rfb)),
      RMul(RSub(Rat(1, 10), Rat(Sbu, 1000)), k2(k1b, Rfb, alpha21))>>

get_stresses(k1b, Rfb, Sbu, alpha21) ==
    <<FromInt(0),
      RMul(Rat(Sbu, 1000), k1(k1b, Rfb)),
      RAdd(RMul(Rat(Sbu, 1000), k1(k1b, Rfb)),
           RMul(RSub(Rat(1, 10), Rat(Sbu, 1000)), k2(k1b, Rfb, alpha21)))>>

NoTipLaw == [k1b |-> FromInt(0), Rfb |-> 0, Sbu |-> 0, alpha21 |-> 0,
             strains |-> <<>>, stresses |-> <<>>]

\* PileTipMaterial.__post_init__: the table handed to ops.uniaxialMaterial
tip_table(k1b, Rfb, Sbu, alpha21) ==
    [k1b |-> k1b, Rfb |-> Rfb, Sbu |-> Sbu, alpha21 |-> alpha21,
     strains |-> get_strains(Sbu),
     stresses |-> get_stresses(k1b, Rfb, Sbu, alpha21)]

-----------------------------------------------------------------------------
(* The engine (openseespy.opensees) *)

\* no nodal load
NoLoad == [node |-> 0, value |-> 0]

\* the state after ops.wipe()
EmptyModel ==
    [ndf |-> 0, nodes |-> {}, fixes |-> {}, materials |-> {}, elements |-> {},
     pattern |-> FALSE, load |-> NoLoad,
     time |-> 0,     \* the load factor, in units of 1/NumberOfSteps
     disp |-> 0]     \* the committed displacement of the loaded node

\* Pile.__initialization: ops.wipe(), then ops.model("basic", "-ndm", 1, "-ndf", 1)
MutInitializationNoWipe(model) == [model EXCEPT !.ndf = 1]

initialization(model) == [EmptyModel EXCEPT !.ndf = 1]

\* in a material: no depth, and the calibration parameters it does not use
NoDepth == [n |-> 0, d |-> 0]
NoParams == [Rfb |-> 0, Sbu |-> 0, alpha21 |-> 0, Rfs |-> 0]

EngineTags(model) ==
    {n.tag : n \in model.nodes} \cup {m.tag : m \in model.materials}
        \cup {e.tag : e \in model.elements}

-----------------------------------------------------------------------------
(* fea_model.py: Pile *)

\* before a Calibrator is made, before analyze is called, before cost is called
NoCalibrator == [pile |-> 0, load_test_results |-> <<>>]
NoRun == [head_displacement |-> <<>>, head_force |-> <<>>, load_factor |-> <<>>,
          converged |-> <<>>, total_load |-> 0, exit |-> "none"]
NoEval == [x |-> <<>>, pile |-> 0, analyses_before |-> 0,
           laws |-> {}, load |-> 0,
           interpolated |-> <<>>, cost |-> [k |-> "none", v |-> [n |-> 0, d |-> 1]]]

\* no constructor in progress; pile and base keep naming the last Pile that was
\* constructed and the value of the tag counter when its constructor began
Idle == [pc |-> "idle", pile |-> 0, base |-> 0, i |-> 0]

\* the fields of a Pile when its constructor starts (model_post_init not yet run)
NewPile(cp, load, n) ==
    [pile_length |-> BottomDepth(soil_profile),
     calibration_params |-> cp,
     load |-> load,
     number_of_node |-> n,
     pile_structure_material |-> 0,
     pile_nodes |-> <<>>, fixed_nodes |-> <<>>,
     materials |-> <<>>, soil_elements |-> <<>>,
     phase |-> "constructed",
     analyses |-> 0]

\* np.linspace(0, pile_length, number_of_node)
linspace(stop, n) ==
    [i \in 1..n |-> IF n = 1 THEN FromInt(0) ELSE Rat((i - 1) * stop, n - 1)]

\* Pile.__is_tip_node
is_tip_node(pile, node) == node.depth = FromInt(pile.pile_length)

\* Pile.__pile_head_node: the first pile node of depth 0
pile_head_node(pile) ==
    LET heads == {i \in DOMAIN pile.pile_nodes : pile.pile_nodes[i].depth = FromInt(0)}
    IN  pile.pile_nodes[CHOOSE i \in heads : \A j \in heads : i <= j]

\* Pile.__pile_element_length
pile_element_length(pile) == Rat(pile.pile_length, pile.number_of_node)

\* the constructor of Pile begins: Pile(pile_length=..., calibration_params=cp, load=...);
\* the new Pile has not been analyzed
PileNew(cp, load, n) ==
    /\ build.pc = "idle"
    /\ calibrator = NoCalibrator
    /\ Len(piles) < MaxBuilds
    /\ piles' = Append(piles, NewPile(cp, load, n))
    /\ build' = [pc |-> "initialization", pile |-> Len(piles) + 1,
                 base |-> counter, i |-> 0]
    /\ run' = NoRun
    /\ UNCHANGED <<soil_profile, soil_query, tip_law, friction_law, counter, ops, calibrator,
                   eval>>

\* model_post_init: self.__initialization()
MutInitializationResetsCounter ==
    /\ build.pc = "initialization"
    /\ ops' = initialization(ops)
    /\ counter' = 0
    /\ build' = [build EXCEPT !.pc = "structure_material"]
    /\ UNCHANGED <<soil_profile, soil_query, tip_law, friction_law, piles, calibrator,
                   run, eval>>

Initialization ==
    /\ build.pc = "initialization"
    /\ ops' = initialization(ops)
    /\ build' = [build EXCEPT !.pc = "structure_material"]
    /\ UNCHANGED <<soil_profile, soil_query, tip_law, friction_law, counter, piles, calibrator,
                   run, eval>>

\* model_post_init: self.pile_structure_material = PileStructureMaterial(...)
StructureMaterial ==
    /\ build.pc = "structure_material"
    /\ counter' = counter + 1
    /\ ops' = [ops EXCEPT !.materials = @ \cup
                  {[tag |-> counter + 1, type |-> "Elastic", law |-> "structure",
                    depth |-> NoDepth, params |-> NoParams]}]
    /\ piles' = [piles EXCEPT ![build.pile].pile_structure_material = counter + 1]
    /\ build' = [build EXCEPT !.pc = "mesh"]
    /\ UNCHANGED <<soil_profile, soil_query, tip_law, friction_law, calibrator, run, eval>>

\* Pile.__mesh
Mesh ==
    /\ build.pc = "mesh"
    /\ LET pile == piles[build.pile]
           n == pile.number_of_node
           depths == linspace(pile.pile_length, n)
           pile_nodes == [i \in 1..n |-> [tag |-> counter + i, depth |-> depths[i]]]
           fixed_nodes == [i \in 1..n |-> [tag |-> counter + n + i, depth |-> depths[i]]]
       IN  /\ counter' = counter + 2 * n
           /\ ops' = [ops EXCEPT
                  !.nodes = @ \cup {pile_nodes[i] : i \in 1..n}
                              \cup {fixed_nodes[i] : i \in 1..n},
                  !.fixes = @ \cup {fixed_nodes[i].tag : i \in 1..n}]
           /\ piles' = [piles EXCEPT ![build.pile].pile_nodes = pile_nodes,
                                     ![build.pile].fixed_nodes = fixed_nodes,
                                     ![build.pile].phase = "meshed"]
    /\ build' = [build EXCEPT !.pc = "pile_elements"]
    /\ UNCHANGED <<soil_profile, soil_query, tip_law, friction_law, calibrator, run, eval>>

\* Pile.__generate_pile_structura_elements
GeneratePileStructuraElements ==
    /\ build.pc = "pile_elements"
    /\ LET pile == piles[build.pile]
           n == pile.number_of_node
       IN  /\ counter' = counter + (n - 1)
           /\ ops' = [ops EXCEPT !.elements = @ \cup
                  {[tag |-> counter + i, type |-> "Truss",
                    nodes |-> <<pile.pile_nodes[i].tag, pile.pile_nodes[i + 1].tag>>,
                    material |-> pile.pile_structure_material] : i \in 1..(n - 1)}]
    /\ build' = [build EXCEPT !.pc = "soil_elements", !.i = 1]
    /\ UNCHANGED <<soil_profile, soil_query, tip_law, friction_law, piles, calibrator, run, eval>>

\* PileTipMaterial(soil_profile, pile_radius, Rfb, Sbu, alpha21): __post_init__
\* reads k1b, hence tip_shear_modulus and tip_poisson_ratio of the profile
TipMaterialRaises(profile) ==
    \/ ~tip_shear_modulus(profile).ok
    \/ ~tip_poisson_ratio(profile).ok

\* PileFrictionMaterial(soil_profile, pile_radius, depth, ...): __post_init__
\* reads Ke_friction and tau_ult, hence shear_modulus(depth) and tau_f(depth)
FrictionMaterialRaises(profile, depth) ==
    \/ ~profile_query(profile, "shear_modulus", depth).ok
    \/ ~profile_query(profile, "tau_f", depth).ok

\* the spring law chosen for a pile node by Pile.__generate_soil_elements
soil_law(pile, node) == IF is_tip_node(pile, node) THEN "tip" ELSE "friction"

\* the material built for a pile node (its tag drawn from the counter)
soil_material(pile, node, tag) ==
    IF soil_law(pile, node) = "tip"
    THEN [tag |-> tag, type |-> "ElasticMultiLinear", law |-> "tip",
          depth |-> FromInt(profile_pile_length(soil_profile)),
          params |-> [NoParams EXCEPT !.Rfb = pile.calibration_params.Rfb,
                                      !.Sbu = pile.calibration_params.Sbu,
                                      !.alpha21 = pile.calibration_params.alpha21]]
    ELSE [tag |-> tag, type |-> "ElasticMultiLinear", law |-> "friction",
          depth |-> node.depth,
          params |-> [NoParams EXCEPT !.Rfs = pile.calibration_params.Rfs]]

\* one iteration of the loop of Pile.__generate_soil_elements, for the pair
\* (pile_nodes[i], fixed_nodes[i]): the material, then the zero-length element;
\* an exception of the material's constructor ends the constructor of the Pile
GenerateSoilElement ==
    /\ build.pc = "soil_elements"
    /\ LET pile == piles[build.pile]
           i == build.i
           pile_node == pile.pile_nodes[i]
           fixed_node == pile.fixed_nodes[i]
           material == soil_material(pile, pile_node, counter + 1)
           raises == IF material.law = "tip"
                     THEN TipMaterialRaises(soil_profile)
                     ELSE FrictionMaterialRaises(soil_profile, pile_node.depth)
           element == [tag |-> counter + 2, type |-> "zeroLength",
                       nodes |-> <<fixed_node.tag, pile_node.tag>>,
                       material |-> material.tag]
           last == i = pile.number_of_node
       IN  IF raises
           THEN /\ counter' = counter + 1
                /\ piles' = [piles EXCEPT ![build.pile].phase = "failed"]
                /\ build' = [build EXCEPT !.pc = "idle"]
                /\ ops' = ops
           ELSE /\ counter' = counter + 2
                /\ ops' = [ops EXCEPT !.materials = @ \cup {material},
                                      !.elements = @ \cup {element}]
                /\ piles' = [piles EXCEPT
                       ![build.pile].materials = Append(@, material),
                       ![build.pile].soil_elements = Append(@, element),
                       ![build.pile].phase =
                           IF last THEN "materials-attached" ELSE @]
                /\ build' = IF last THEN [build EXCEPT !.pc = "load"]
                            ELSE [build EXCEPT !.i = i + 1]
    /\ UNCHANGED <<soil_profile, soil_query, tip_law, friction_law, calibrator, run, eval>>

\* Pile.apply_load_at_pile_head; the constructor returns
ApplyLoad ==
    /\ build.pc = "load"
    /\ LET pile == piles[build.pile]
       IN  ops' = [ops EXCEPT !.pattern = TRUE,
                              !.load = [node |-> pile_head_node(pile).tag,
                                        value |-> pile.load]]
    /\ piles' = [piles EXCEPT ![build.pile].phase = "load-applied"]
    /\ build' = [build EXCEPT !.pc = "idle"]
    /\ UNCHANGED <<soil_profile, soil_query, tip_law, friction_law, counter, calibrator, run, eval>>

-----------------------------------------------------------------------------
(* Float results that may not be numbers: [k, v] with k = "num" and v a    *)
(* rational, k = "inf" and v the sign, or k = "nan".                       *)

FNum(r) == [k |-> "num", v |-> r]
FInf(sign) == [k |-> "inf", v |-> FromInt(sign)]
FNan == [k |-> "nan", v |-> FromInt(0)]

Sign(r) == IF r.n < 0 THEN -1 ELSE IF r.n = 0 THEN 0 ELSE 1

\* a / b of two finite floats, numpy semantics: x/0 is inf, 0/0 is nan
FDiv(a, b) ==
    IF b.n # 0 THEN FNum(RDiv(a, b))
    ELSE IF a.n = 0 THEN FNan ELSE FInf(Sign(a))

\* f * r, r finite: inf * 0 is nan
FMul(f, r) ==
    CASE f.k = "num" -> FNum(RMul(f.v, r))
      [] f.k = "nan" -> FNan
      [] f.k = "inf" -> IF r.n = 0 THEN FNan ELSE FInf(Sign(f.v) * Sign(r))

\* f + r, r finite
FAdd(f, r) == IF f.k = "num" THEN FNum(RAdd(f.v, r)) ELSE f

-----------------------------------------------------------------------------
(* materials.py: PileFrictionMaterial.  Radii are in tenths, Rfs in tenths *)
(* and Poisson ratios in tenths, as the integers of the inputs.            *)

\* SoilLayer.avg_poisson_ratio, max_shear_modulus, avg_shear_modulus
layer_avg_poisson_ratio(layer) ==
    Rat(layer.up_poisson_ratio + layer.bottom_poisson_ratio, 2)

layer_max_shear_modulus(layer) ==
    IF layer.up_shear_modulus >= layer.bottom_shear_modulus
    THEN layer.up_shear_modulus ELSE layer.bottom_shear_modulus

layer_avg_shear_modulus(layer) ==
    Rat(layer.up_shear_modulus + layer.bottom_shear_modulus, 2)

\* SoilProfile.max_shear_modulus
profile_max_shear_modulus(profile) ==
    MaxOf([i \in 1..Len(profile) |-> layer_max_shear_modulus(profile[i])])

\* SoilProfile.avg_poisson_ratio, as a number (not in tenths)
profile_avg_poisson_ratio(profile) ==
    RDiv(RSum([i \in 1..Len(profile) |->
                  RMul(RDiv(layer_avg_poisson_ratio(profile[i]), FromInt(10)),
                       FromInt(length(profile[i])))]),
         FromInt(profile_pile_length(profile)))

\* PileFrictionMaterial.pile_diameter: 2 * np.pi * pile_radius, np.pi as 22/7
Pi == Rat(22, 7)
pile_diameter(pile_radius) == RMul(RMul(FromInt(2), Pi), pile_radius)

\* PileFrictionMaterial.pile_element_surface_area
pile_element_surface_area(element_length, pile_radius) ==
    RMul(element_length, pile_diameter(pile_radius))

\* PileFrictionMaterial.rou_m
rou_m(profile) ==
    RSum([i \in 1..Len(profile) |->
             RDiv(RMul(layer_avg_shear_modulus(profile[i]), FromInt(length(profile[i]))),
                  RMul(FromInt(profile_max_shear_modulus(profile)),
                       FromInt(profile_pile_length(profile))))])

\* PileFrictionMaterial.rm
rm(profile) ==
    RMul(RMul(RMul(Rat(5, 2), FromInt(profile_pile_length(profile))), rou_m(profile)),
         RSub(FromInt(1), profile_avg_poisson_ratio(profile)))

\* np.log: not a number below 0 (with a warning), -inf at 0; above 0 its value
\* is given by the first term of its series, 2(x - 1)/(x + 1), which has the
\* sign of the logarithm and grows with x as the logarithm does
Log(x) ==
    IF x.n < 0 THEN FNan
    ELSE IF x.n = 0 THEN FInf(-1)
    ELSE FNum(RDiv(RMul(FromInt(2), RSub(x, FromInt(1))), RAdd(x, FromInt(1))))

\* r / f, r finite
FRDiv(r, f) ==
    CASE f.k = "num" -> FDiv(r, f.v)
      [] f.k = "nan" -> FNan
      [] f.k = "inf" -> FNum(FromInt(0))

\* f + g
FPlus(f, g) ==
    CASE f.k = "nan" \/ g.k = "nan" -> FNan
      [] f.k = "num" /\ g.k = "num" -> FNum(RAdd(f.v, g.v))
      [] f.k = "inf" /\ g.k = "inf" -> IF f.v = g.v THEN f ELSE FNan
      [] f.k = "inf" -> f
      [] OTHER -> g

\* PileFrictionMaterial.Ke_friction, at a depth the profile covers
Ke_friction(profile, pile_radius, depth, element_length) ==
    FMul(FRDiv(profile_query(profile, "shear_modulus", depth).value,
               FMul(Log(RDiv(rm(profile), pile_radius)), pile_radius)),
         pile_element_surface_area(element_length, pile_radius))

\* PileFrictionMaterial.tau_ult, at a depth the profile covers
tau_ult(profile, pile_radius, depth, element_length, Rfs) ==
    RMul(RDiv(profile_query(profile, "tau_f", depth).value, Rat(Rfs, 10)),
         pile_element_surface_area(element_length, pile_radius))

\* PileFrictionMaterial.b
b(profile, pile_radius, depth, element_length, Rfs) ==
    FDiv(FromInt(1), tau_ult(profile, pile_radius, depth, element_length, Rfs))

\* PileFrictionMaterial.a
a(profile, pile_radius, depth, element_length) ==
    FRDiv(FromInt(1), Ke_friction(profile, pile_radius, depth, element_length))

\* PileFrictionMaterial.__get_sample_displacements: np.geomspace(1e-12, 0.1, 50),
\* here the SampleCount points 10^-SampleCount, ..., 1/100, 1/10
get_sample_displacements ==
    [k \in 1..SampleCount |-> Rat(1, 10 ^ (SampleCount - k + 1))]

\* PileFrictionMaterial.__get_forces: strains / (a + b * strains)
get_forces(strains, fa, fb) ==
    [k \in DOMAIN strains |-> FRDiv(strains[k], FPlus(fa, FMul(fb, strains[k])))]

NoFrictionLaw ==
    [pile_radius |-> FromInt(0), depth |-> FromInt(0),
     pile_element_length |-> FromInt(0), Rfs |-> 0,
     Ke |-> FNan, tau_ult |-> FromInt(0), a |-> FNan, b |-> FNan,
     strains |-> <<>>, stresses |-> <<>>]

\* PileFrictionMaterial.__post_init__: the table handed to ops.uniaxialMaterial
friction_table(profile, pile_radius, depth, element_length, Rfs) ==
    LET fa == a(profile, pile_radius, depth, element_length)
        fb == b(profile, pile_radius, depth, element_length, Rfs)
        strains == get_sample_displacements
    IN  [pile_radius |-> pile_radius, depth |-> depth,
         pile_element_length |-> element_length, Rfs |-> Rfs,
         Ke |-> Ke_friction(profile, pile_radius, depth, element_length),
         tau_ult |-> tau_ult(profile, pile_radius, depth, element_length, Rfs),
         a |-> fa, b |-> fb,
         strains |-> strains,
         stresses |-> get_forces(strains, fa, fb)]

-----------------------------------------------------------------------------
(* fea_model.py: Pile.analyze *)

\* The engine's answers to the NumberOfSteps calls of ops.analyze(1): 0 when the
\* increment does not converge (the engine keeps its last committed state), d > 0
\* when it converges and the head node moves on by d.
Outcomes == [1..NumberOfSteps -> 0..MaxStepDisp]

Converged(outcome, k) == Cardinality({j \in 1..k : outcome[j] > 0})

\* ops.getLoadFactor(1) after the k-th call, in units of 1/NumberOfSteps
LoadFactor(model, outcome, k) == model.time + Converged(outcome, k)

\* ops.nodeDisp(head, 1) after the k-th call
NodeDisp(model, outcome, k) == model.disp + SumSeq(SubSeq(outcome, 1, k))

\* head_force.append(ops.getLoadFactor(1) * self.load)
head_force_of(pile, model, outcome, k) ==
    Rat(LoadFactor(model, outcome, k) * pile.load, NumberOfSteps)

\* what Pile.analyze returns, [head_displacement, head_force], with the engine's
\* answers it was computed from
analyze(pile, model, outcome) ==
    [head_displacement |-> [k \in 1..NumberOfSteps |-> NodeDisp(model, outcome, k)],
     head_force |-> [k \in 1..NumberOfSteps |-> head_force_of(pile, model, outcome, k)],
     load_factor |-> [k \in 1..NumberOfSteps |->
                         Rat(LoadFactor(model, outcome, k), NumberOfSteps)],
     converged |-> [k \in 1..NumberOfSteps |-> outcome[k] > 0],
     total_load |-> model.load.value,
     exit |-> "returned"]

\* the engine after the calls of ops.analyze(1)
analyzed_model(model, outcome) ==
    [model EXCEPT !.time = LoadFactor(model, outcome, NumberOfSteps),
                  !.disp = NodeDisp(model, outcome, NumberOfSteps)]

\* a caller analyzes the Pile it has just constructed: pile.analyze()
Analyze(p) ==
    /\ build.pc = "idle"
    /\ calibrator = NoCalibrator
    /\ p = Len(piles)
    /\ piles[p].phase = "load-applied"
    /\ \E outcome \in Outcomes :
          /\ run' = analyze(piles[p], ops, outcome)
          /\ ops' = analyzed_model(ops, outcome)
    /\ piles' = [piles EXCEPT ![p].phase = "analyzed", ![p].analyses = @ + 1]
    /\ UNCHANGED <<soil_profile, soil_query, tip_law, friction_law, counter, build, calibrator, eval>>

-----------------------------------------------------------------------------
(* calibrator.py: Calibrator *)

\* scipy interp1d(x, y, kind='linear', fill_value="extrapolate") evaluated at
\* x_new.  x is a head displacement history, which is non-decreasing, so the
\* sort interp1d begins with leaves it as it is.  searchsorted gives the number
\* of samples below x_new, clipped to 1..len-1: the segment [lo, hi]; then
\* slope = (y_hi - y_lo) / (x_hi - x_lo) and y_new = slope*(x_new - x_lo) + y_lo.
interp1d(x, y, x_new) ==
    LET below == Cardinality({i \in DOMAIN x : x[i] < x_new})
        idx == IF below < 1 THEN 1
               ELSE IF below > Len(x) - 1 THEN Len(x) - 1 ELSE below
        lo == idx
        hi == idx + 1
        slope == FDiv(RSub(y[hi], y[lo]), FromInt(x[hi] - x[lo]))
    IN  FAdd(FMul(slope, FromInt(x_new - x[lo])), y[lo])

\* Calibrator.least_square: np.sqrt(sum((y2 - y1) ** 2)); a finite result is
\* given by its square, [k |-> "num", v |-> the sum of the squares]
least_square(y1, y2) ==
    IF \E i \in DOMAIN y1 : y1[i].k = "nan" THEN FNan
    ELSE IF \E i \in DOMAIN y1 : y1[i].k = "inf" THEN FInf(1)
    ELSE FNum(RSum([i \in DOMAIN y1 |->
                 RMul(RSub(FromInt(y2[i]), y1[i].v), RSub(FromInt(y2[i]), y1[i].v))]))

\* Calibrator(pile=p, load_test_results=...): model_post_init sets the load of
\* the Pile it was given to the largest measured force
CalibratorNew(p) ==
    /\ build.pc = "idle"
    /\ calibrator = NoCalibrator
    /\ p = Len(piles)
    /\ piles[p].phase \in {"load-applied", "analyzed"}
    /\ calibrator' = [pile |-> p, load_test_results |-> <<TestDisplacements, TestForces>>]
    /\ piles' = [piles EXCEPT ![p].load = MaxOf(TestForces)]
    /\ UNCHANGED <<soil_profile, soil_query, tip_law, friction_law, counter, ops, build, run, eval>>

\* the parameters the spring laws of an engine model were built from
LawsOf(model) == {m.params : m \in {mm \in model.materials : mm.law # "structure"}}

\* Calibrator.cost(x), called by differential_evolution with a trial vector
Cost(x) ==
    /\ build.pc = "idle"
    /\ calibrator # NoCalibrator
    /\ piles[calibrator.pile].analyses < MaxRuns
    /\ LET p == calibrator.pile
           pile == [piles[p] EXCEPT !.calibration_params = from_array(x)]
       IN  \E outcome \in Outcomes :
             LET result == analyze(pile, ops, outcome)
                 grid == calibrator.load_test_results[1]
                 measured == calibrator.load_test_results[2]
                 pile_head_force ==
                     [i \in DOMAIN grid |->
                         interp1d(result.head_displacement, result.head_force, grid[i])]
             IN  /\ run' = result
                 /\ ops' = analyzed_model(ops, outcome)
                 /\ piles' = [piles EXCEPT ![p] =
                        [pile EXCEPT !.phase = "analyzed", !.analyses = @ + 1]]
                 /\ eval' = [x |-> x, pile |-> p,
                             analyses_before |-> piles[p].analyses,
                             laws |-> LawsOf(ops),
                             load |-> ops.load.value,
                             interpolated |-> pile_head_force,
                             cost |-> least_square(pile_head_force, measured)]
    /\ UNCHANGED <<soil_profile, soil_query, tip_law, friction_law, counter, build, calibrator>>

-----------------------------------------------------------------------------
(* Depth queries on a soil profile (materials.py), by themselves *)

NoQuery == [op |-> "none", depth |-> [n |-> 0, d |-> 0], result |-> LayerNotFound]

\* the queried depths: every half unit from -1 to one unit below the profile
QueryDepths == {Rat(h, 2) : h \in (-2)..(2 * MaxDepth + 2)}

\* soil_profile.shear_modulus(d), .poisson_ratio(d), .tau_f(d)
DepthQuery(op, d) ==
    /\ soil_query' = [op |-> op, depth |-> d, result |-> profile_query(soil_profile, op, d)]
    /\ UNCHANGED <<soil_profile, tip_law, friction_law, counter, ops, piles, build, calibrator, run, eval>>

\* soil_profile.tip_shear_modulus, soil_profile.tip_poisson_ratio
TipQuery ==
    /\ \/ soil_query' = [op |-> "tip_shear_modulus",
                         depth |-> FromInt(profile_pile_length(soil_profile)),
                         result |-> tip_shear_modulus(soil_profile)]
       \/ soil_query' = [op |-> "tip_poisson_ratio",
                         depth |-> FromInt(profile_pile_length(soil_profile)),
                         result |-> tip_poisson_ratio(soil_profile)]
    /\ UNCHANGED <<soil_profile, tip_law, friction_law, counter, ops, piles, build, calibrator, run, eval>>

\* soil_profile.pile_length
PileLengthQuery ==
    /\ soil_query' = [op |-> "pile_length", depth |-> [n |-> 0, d |-> 0],
                      result |-> [ok |-> TRUE, layer |-> 0,
                                  value |-> FromInt(profile_pile_length(soil_profile))]]
    /\ UNCHANGED <<soil_profile, tip_law, friction_law, counter, ops, piles, build, calibrator, run, eval>>

InitSoil ==
    /\ soil_profile \in Profiles
    /\ soil_query = NoQuery
    /\ tip_law = NoTipLaw
    /\ friction_law = NoFrictionLaw
    /\ counter = 0
    /\ ops = EmptyModel
    /\ piles = <<>>
    /\ build = Idle
    /\ calibrator = NoCalibrator
    /\ run = NoRun
    /\ eval = NoEval

NextSoil ==
    \/ \E op \in {"shear_modulus", "poisson_ratio", "tau_f"}, d \in QueryDepths :
          DepthQuery(op, d)
    \/ TipQuery
    \/ PileLengthQuery

SpecSoil == InitSoil /\ [][NextSoil]_vars

-----------------------------------------------------------------------------
(* The program: Piles are constructed and analyzed, a Calibrator is made   *)
(* for the last Pile and its cost function is evaluated.                   *)

\* the soil profiles of the constructed Piles
PileProfiles == {Stack(0, {MaxDepth}, 4), Stack(0, {1, MaxDepth}, 4)}

Init ==
    /\ soil_profile \in PileProfiles
    /\ soil_query = NoQuery
    /\ tip_law = NoTipLaw
    /\ friction_law = NoFrictionLaw
    /\ counter = 0
    /\ ops = EmptyModel
    /\ piles = <<>>
    /\ build = Idle
    /\ calibrator = NoCalibrator
    /\ run = NoRun
    /\ eval = NoEval

Next ==
    \/ \E x \in TrialVectors, load \in Loads, n \in 1..MaxNodes :
          PileNew(from_array(x), load, n)
    \/ Initialization
    \/ StructureMaterial
    \/ Mesh
    \/ GeneratePileStructuraElements
    \/ GenerateSoilElement
    \/ ApplyLoad
    \/ \E p \in DOMAIN piles : Analyze(p)
    \/ \E p \in DOMAIN piles : CalibratorNew(p)
    \/ \E x \in TrialVectors : Cost(x)

Spec == Init /\ [][Next]_vars

\* a caller that only constructs Piles and analyzes them, as
\* tests/test_simple_fea_run.py does: no Calibrator
NextBuild ==
    \/ \E x \in TrialVectors, load \in Loads, n \in 1..MaxNodes :
          PileNew(from_array(x), load, n)
    \/ Initialization
    \/ StructureMaterial
    \/ Mesh
    \/ GeneratePileStructuraElements
    \/ GenerateSoilElement
    \/ ApplyLoad
    \/ \E p \in DOMAIN piles : Analyze(p)

SpecBuild == Init /\ [][NextBuild]_vars

-----------------------------------------------------------------------------
(* Tip law tables (materials.py: PileTipMaterial), by themselves: built    *)
(* for every parameter triple of a grid over CalibrationParams.bounds      *)
(* (fea_model.py) and every tip stiffness k1b of 1..MaxK1b.                *)

\* CalibrationParams.bounds: Rfb (0.8, 1.0) in tenths, Sbu (1e-3, 9e-3) in
\* millimetres, alpha21 (0.0, 1.0) in hundredths
RfbMin == 8
RfbMax == 10
SbuMin == 1
SbuMax == 9
Alpha21Min == 0
Alpha21Max == 100

\* the inputs of a tip law, its table not built yet
TipInputs(k1b, Rfb, Sbu, alpha21) ==
    [k1b |-> k1b, Rfb |-> Rfb, Sbu |-> Sbu, alpha21 |-> alpha21,
     strains |-> <<>>, stresses |-> <<>>]

\* PileTipMaterial(..., Rfb, Sbu, alpha21) with a profile whose k1b is given
BuildTipLaw ==
    /\ tip_law # NoTipLaw
    /\ tip_law.strains = <<>>
    /\ tip_law' = tip_table(tip_law.k1b, tip_law.Rfb, tip_law.Sbu, tip_law.alpha21)
    /\ UNCHANGED <<soil_profile, soil_query, friction_law, counter, ops, piles, build,
                   calibrator, run, eval>>

InitTip ==
    /\ soil_profile = Stack(0, {MaxDepth}, 4)
    /\ soil_query = NoQuery
    /\ tip_law \in {TipInputs(FromInt(k), Rfb, Sbu, alpha21) :
                       k \in 1..MaxK1b, Rfb \in RfbMin..RfbMax,
                       Sbu \in SbuMin..SbuMax, alpha21 \in Alpha21Min..Alpha21Max}
    /\ friction_law = NoFrictionLaw
    /\ counter = 0
    /\ ops = EmptyModel
    /\ piles = <<>>
    /\ build = Idle
    /\ calibrator = NoCalibrator
    /\ run = NoRun
    /\ eval = NoEval

NextTip == BuildTipLaw

SpecTip == InitTip /\ [][NextTip]_vars

-----------------------------------------------------------------------------
(* Friction law tables (materials.py: PileFrictionMaterial), by            *)
(* themselves: built for every valid soil profile, at every depth of a     *)
(* pile node that is given a friction spring, for every Rfs of a grid over *)
(* CalibrationParams.bounds and every pile radius up to MaxRadius.         *)

\* CalibrationParams.bounds: Rfs (0.8, 1.0) in tenths
RfsMin == 8
RfsMax == 10

\* the inputs of a friction law, its table not built yet
FrictionInputs(pile_radius, depth, element_length, Rfs) ==
    [NoFrictionLaw EXCEPT !.pile_radius = pile_radius, !.depth = depth,
                          !.pile_element_length = element_length, !.Rfs = Rfs]

\* the depths and element lengths Pile.__generate_soil_elements gives a
\* PileFrictionMaterial: the nodes of a mesh over the profile that are not the tip
FrictionNodes(profile) ==
    LET stop == BottomDepth(profile)
        meshes == {{<<linspace(stop, n)[i], Rat(stop, n)>> : i \in 1..n} :
                      n \in 1..MaxNodes}
    IN  {node \in UNION meshes : node[1] # FromInt(stop)}

\* PileFrictionMaterial(soil_profile, pile_radius, depth, pile_element_length, Rfs)
BuildFrictionLaw ==
    /\ friction_law # NoFrictionLaw
    /\ friction_law.strains = <<>>
    /\ ~FrictionMaterialRaises(soil_profile, friction_law.depth)
    /\ friction_law' = friction_table(soil_profile, friction_law.pile_radius,
                           friction_law.depth, friction_law.pile_element_length,
                           friction_law.Rfs)
    /\ UNCHANGED <<soil_profile, soil_query, tip_law, counter, ops, piles, build,
                   calibrator, run, eval>>

InitFriction ==
    /\ soil_profile \in Profiles
    /\ soil_query = NoQuery
    /\ tip_law = NoTipLaw
    /\ friction_law \in {FrictionInputs(Rat(r, 10), node[1], node[2], Rfs) :
                            r \in 1..MaxRadius, node \in FrictionNodes(soil_profile),
                            Rfs \in RfsMin..RfsMax}
    /\ counter = 0
    /\ ops = EmptyModel
    /\ piles = <<>>
    /\ build = Idle
    /\ calibrator = NoCalibrator
    /\ run = NoRun
    /\ eval = NoEval

NextFriction == BuildFrictionLaw

SpecFriction == InitFriction /\ [][NextFriction]_vars

-----------------------------------------------------------------------------
(* Claims *)

\* the Pile of the last constructor call
LastPile == piles[build.pile]

TagsOf(objects) == {objects[i].tag : i \in DOMAIN objects}
SetOf(objects) == {objects[i] : i \in DOMAIN objects}

\* C1: every call of Calibrator.cost(x) analyzes a Pile constructed for that
\* call: one that was never analyzed before, whose spring laws were built from the
\* calibration parameters x, and whose head load in the engine is the largest
\* measured force.
C1_CostBuildsFreshPile ==
    eval.pile # 0 =>
        /\ eval.analyses_before = 0
        /\ \A law \in eval.laws :
              /\ law.Rfs # 0 => law.Rfs = from_array(eval.x).Rfs
              /\ law.Rfb # 0 => /\ law.Rfb = from_array(eval.x).Rfb
                                /\ law.Sbu = from_array(eval.x).Sbu
                                /\ law.alpha21 = from_array(eval.x).alpha21
        /\ eval.load = MaxOf(TestForces)

\* C2: the constructor of a Pile resets the engine before it creates anything
\* in it: while the constructor has not reset the engine yet it has created no
\* tagged object, and from the reset on the engine holds exactly the nodes, the
\* restraints, the materials, the spring elements and the head load of the last
\* constructed Pile, every tag of the engine being one drawn by that constructor.
C2_EngineHoldsLastBuildOnly ==
    build.pile # 0 =>
        IF build.pc = "initialization"
        THEN /\ counter = build.base
             /\ LastPile.pile_nodes = <<>>
             /\ LastPile.materials = <<>>
        ELSE /\ ops.ndf = 1
             /\ EngineTags(ops) \subseteq (build.base + 1)..counter
             /\ ops.nodes = SetOf(LastPile.pile_nodes) \cup SetOf(LastPile.fixed_nodes)
             /\ ops.fixes = TagsOf(LastPile.fixed_nodes)
             /\ {m \in ops.materials : m.law # "structure"} = SetOf(LastPile.materials)
             /\ {m.tag : m \in {mm \in ops.materials : mm.law = "structure"}}
                    = {LastPile.pile_structure_material} \ {0}
             /\ {e \in ops.elements : e.type = "zeroLength"} = SetOf(LastPile.soil_elements)
             /\ \A e \in ops.elements :
                    /\ e.material \in {m.tag : m \in ops.materials}
                    /\ \A i \in 1..2 : e.nodes[i] \in {n.tag : n \in ops.nodes}
             /\ ops.load # NoLoad <=> LastPile.phase \in {"load-applied", "analyzed"}
             /\ ops.load # NoLoad => ops.load.node = pile_head_node(LastPile).tag

\* C2 witness: a second Pile has been constructed, to its head load, after a
\* first one that had put its own objects in the engine.
C2_Witness ==
    /\ build.pile = 2
    /\ build.pc = "idle"
    /\ piles[1].phase \in {"load-applied", "analyzed", "failed"}
    /\ piles[1].pile_nodes # <<>>
    /\ piles[2].phase = "load-applied"
    /\ ops.nodes # {}

\* C3: Calibrator.cost returns the finite sentinel 1e6 whenever the
\* interpolated force vector holds a not-a-number, and never returns
\* not-a-number.  (A finite cost is given by its square.)
C3_NanCostIsSentinel ==
    eval.pile # 0 =>
        /\ eval.cost.k # "nan"
        /\ (\E i \in DOMAIN eval.interpolated : eval.interpolated[i].k = "nan") =>
              /\ eval.cost.k = "num"
              /\ eval.cost.v.d = 1
              /\ eval.cost.v.n \div 1000000 = 1000000
              /\ eval.cost.v.n % 1000000 = 0

\* the order of the phases of a Pile; the constructor may also end in an
\* exception of a spring material
PhaseOrder ==
    {<<"constructed", "meshed">>, <<"meshed", "materials-attached">>,
     <<"meshed", "failed">>, <<"materials-attached", "load-applied">>,
     <<"load-applied", "analyzed">>}

\* C4: a Pile goes through constructed, meshed, materials-attached,
\* load-applied, analyzed in that order: the engine is reset before the mesh, the
\* pile and spring elements exist before the head load is applied, analyze runs
\* after the load is applied; and a Pile that has reached analyzed is not
\* analyzed again and none of its fields changes.
C4_SingleUseLifecycle ==
    /\ [](\A p \in DOMAIN piles :
            /\ piles[p].phase \in {"load-applied", "analyzed"} =>
                  /\ Len(piles[p].soil_elements) = piles[p].number_of_node
                  /\ Len(piles[p].pile_nodes) = piles[p].number_of_node
            /\ piles[p].analyses > 0 => piles[p].phase = "analyzed")
    /\ [][\A p \in DOMAIN piles :
            /\ piles'[p].phase # piles[p].phase =>
                  <<piles[p].phase, piles'[p].phase>> \in PhaseOrder
            /\ piles[p].phase = "analyzed" => piles'[p] = piles[p]]_vars

\* strictly increasing sequence of rationals
Increasing(s) == \A i \in 1..(Len(s) - 1) : RLt(s[i], s[i + 1])

\* C5: Pile.analyze returns a displacement and a force sequence of length
\* number_of_steps; the k-th force is the load factor after increment k times the
\* total load, the forces increase, and the last force is the total load applied
\* to the head node in the engine.
C5_AnalyzeCurve ==
    run.exit # "none" =>
        /\ Len(run.head_displacement) = NumberOfSteps
        /\ Len(run.head_force) = NumberOfSteps
        /\ \A k \in 1..NumberOfSteps :
              run.head_force[k] = RMul(run.load_factor[k], FromInt(run.total_load))
        /\ Increasing(run.head_force)
        /\ run.head_force[NumberOfSteps] = FromInt(run.total_load)

\* C6: when the engine reports an increment that did not converge, Pile.analyze
\* ends in a failure and returns no curve.
C6_NonConvergenceSurfaced ==
    (run.exit # "none" /\ \E k \in DOMAIN run.converged : ~run.converged[k])
        => run.exit = "failure"

\* C7: on a profile contiguous from depth 0, shear_modulus(d), poisson_ratio(d)
\* and tau_f(d) succeed for every d of [0, bottom of the profile], answered by a
\* layer whose range holds d, they raise exactly when no layer's range holds d,
\* and the query at d = pile_length made for the tip properties succeeds.
C7_DepthQueries ==
    /\ soil_query.op \in {"shear_modulus", "poisson_ratio", "tau_f"} =>
          /\ soil_query.result.ok <=>
                \E i \in DOMAIN soil_profile : Covers(soil_profile[i], soil_query.depth)
          /\ soil_query.result.ok =>
                Covers(soil_profile[soil_query.result.layer], soil_query.depth)
          /\ (/\ RLe(FromInt(0), soil_query.depth)
              /\ RLe(soil_query.depth, FromInt(BottomDepth(soil_profile))))
                => soil_query.result.ok
    /\ soil_query.op \in {"tip_shear_modulus", "tip_poisson_ratio"} =>
          soil_query.result.ok

\* C8: a meshed Pile of N >= 2 nodes has exactly one pile node at depth 0 and
\* exactly one at depth pile_length, and when its constructor has ended the tip
\* node and only the tip node has a tip law, every other pile node a friction law
\* at its own depth.
C8_TipAndFrictionLaws ==
    \A p \in DOMAIN piles :
        LET pile == piles[p]
            N == pile.number_of_node
        IN  (N >= 2 /\ pile.phase # "constructed") =>
              /\ Cardinality({i \in 1..N : pile.pile_nodes[i].depth = FromInt(0)}) = 1
              /\ Cardinality({i \in 1..N :
                     pile.pile_nodes[i].depth = FromInt(pile.pile_length)}) = 1
              /\ pile.phase # "meshed" =>
                    /\ Len(pile.materials) = N
                    /\ \A i \in 1..N :
                          IF pile.pile_nodes[i].depth = FromInt(pile.pile_length)
                          THEN pile.materials[i].law = "tip"
                          ELSE /\ pile.materials[i].law = "friction"
                               /\ pile.materials[i].depth = pile.pile_nodes[i].depth

\* C9: SoilProfile.pile_length is the sum of the layers' thicknesses
\* bottom_depth - up_depth, the positive depth of the bottom of the last layer.
C9_PileLengthIsThickness ==
    soil_query.op = "pile_length" =>
        /\ soil_query.result.value = FromInt(Thickness(soil_profile))
        /\ soil_query.result.value = FromInt(BottomDepth(soil_profile))
        /\ soil_query.result.value.n > 0

\* C10: for parameters inside the calibration bounds and a positive k1b, the
\* tip law table has three breakpoints, at the displacements 0 < Sbu < 0.1,
\* starts at force 0, its forces do not decrease, and its two segments have the
\* slopes k1 = k1b / Rfb and k2 = k1 * alpha21 (so it is continuous at Sbu).
C10_TipLawTable ==
    tip_law.strains # <<>> =>
        LET strains == tip_law.strains
            stresses == tip_law.stresses
            slope(i) == RDiv(RSub(stresses[i + 1], stresses[i]),
                             RSub(strains[i + 1], strains[i]))
        IN  /\ Len(strains) = 3
            /\ Len(stresses) = 3
            /\ strains[1] = FromInt(0)
            /\ strains[2] = Rat(tip_law.Sbu, 1000)
            /\ strains[3] = Rat(1, 10)
            /\ RLt(strains[1], strains[2])
            /\ RLt(strains[2], strains[3])
            /\ stresses[1] = FromInt(0)
            /\ RLe(stresses[1], stresses[2])
            /\ RLe(stresses[2], stresses[3])
            /\ slope(1) = Rat(10 * tip_law.k1b.n, tip_law.Rfb * tip_law.k1b.d)
            /\ slope(2) = Rat(10 * tip_law.k1b.n * tip_law.alpha21,
                              tip_law.Rfb * tip_law.k1b.d * 100)

\* C10 witness: the table of the default parameters (Rfb = 1, Sbu = 5e-3,
\* alpha21 = 0.01) has been built, with a second segment flatter than the first.
C10_Witness ==
    /\ tip_law.strains # <<>>
    /\ tip_law.Rfb = from_default.Rfb
    /\ tip_law.Sbu = from_default.Sbu
    /\ tip_law.alpha21 = from_default.alpha21
    /\ RLt(tip_law.stresses[2], tip_law.stresses[3])

\* C11: every friction law table built from a valid soil profile has strictly
\* increasing sampled displacements and strictly increasing sampled forces,
\* all of them numbers, its law gives the force 0 at the displacement 0, and
\* every sampled force is strictly below tau_ult.
C11_FrictionLawTable ==
    friction_law.strains # <<>> =>
        LET strains == friction_law.strains
            stresses == friction_law.stresses
        IN  /\ \A k \in 1..(Len(strains) - 1) : RLt(strains[k], strains[k + 1])
            /\ \A k \in DOMAIN stresses : stresses[k].k = "num"
            /\ \A k \in 1..(Len(stresses) - 1) :
                   RLt(stresses[k].v, stresses[k + 1].v)
            /\ get_forces(<<FromInt(0)>>, friction_law.a, friction_law.b)[1]
                   = FNum(FromInt(0))
            /\ \A k \in DOMAIN stresses : RLt(stresses[k].v, friction_law.tau_ult)

\* the tags of the tagged objects a Pile holds
PileTags(pile) ==
    ({pile.pile_structure_material} \ {0})
        \cup TagsOf(pile.pile_nodes) \cup TagsOf(pile.fixed_nodes)
        \cup TagsOf(pile.materials) \cup TagsOf(pile.soil_elements)

\* the number of tagged objects a Pile holds
PileObjects(pile) ==
    (IF pile.pile_structure_material = 0 THEN 0 ELSE 1)
        + Len(pile.pile_nodes) + Len(pile.fixed_nodes)
        + Len(pile.materials) + Len(pile.soil_elements)

\* the number of tagged objects the first k Piles hold
RECURSIVE AllPileObjects(_)
AllPileObjects(k) == IF k = 0 THEN 0 ELSE AllPileObjects(k - 1) + PileObjects(piles[k])

\* the tags held by the Piles constructed so far
AllPileTags == UNION {PileTags(piles[p]) : p \in DOMAIN piles}

\* the tags of every tagged object that a Pile or the engine holds
KnownTags == AllPileTags \cup EngineTags(ops)

\* C12: every tagged object has a tag of its own, across the Pile builds: the
\* objects held by all the Piles constructed so far have pairwise distinct
\* tags (as many tags as objects), in the engine no two nodes, no two materials
\* and no two elements share a tag, and no tag is beyond the counter; the
\* counter never decreases, not even when the engine is wiped, and the objects
\* a step creates get exactly the tags above the counter's value before the
\* step, one each (a material whose constructor raises has drawn its tag and
\* is held by nothing).
C12_TagsAreUnique ==
    /\ [](/\ Cardinality(AllPileTags) = AllPileObjects(Len(piles))
          /\ \A x, y \in ops.nodes : x.tag = y.tag => x = y
          /\ \A x, y \in ops.materials : x.tag = y.tag => x = y
          /\ \A x, y \in ops.elements : x.tag = y.tag => x = y
          /\ Cardinality(EngineTags(ops)) =
                 Cardinality(ops.nodes) + Cardinality(ops.materials)
                     + Cardinality(ops.elements)
          /\ KnownTags \subseteq 1..counter)
    /\ [][/\ counter' >= counter
          /\ KnownTags' \ KnownTags =
                 IF build.pc = "soil_elements" /\ piles'[build.pile].phase = "failed"
                 THEN {} ELSE (counter + 1)..counter']_vars

\* C12 witness: the constructor of a second Pile has drawn tags, after a first
\* Pile whose objects hold the tags drawn before, and the engine was wiped
\* in between.
C12_Witness ==
    /\ Len(piles) = 2
    /\ build.base > 0
    /\ counter > build.base
    /\ PileTags(piles[1]) # {}
    /\ Len(piles[2].soil_elements) > 0

\* C13: once the constructor of a Pile with N nodes has ended, the engine holds
\* N pile nodes and N fixed nodes at the same N equally spaced depths from 0
\* to pile_length, the fixed nodes and only they are restrained, there are
\* exactly N - 1 pile-structure elements, the i-th joining the pile nodes i and
\* i + 1 with the Pile's elastic material, and exactly N spring elements, the
\* i-th joining the fixed node i to the pile node i of the same depth.
C13_MeshAndElements ==
    (build.pile # 0 /\ build.pc = "idle") =>
        LET pile == LastPile
            n == pile.number_of_node
            truss == {e \in ops.elements : e.type = "Truss"}
            springs == {e \in ops.elements : e.type = "zeroLength"}
        IN  /\ Len(pile.pile_nodes) = n
            /\ Len(pile.fixed_nodes) = n
            /\ ops.nodes = SetOf(pile.pile_nodes) \cup SetOf(pile.fixed_nodes)
            /\ Cardinality(ops.nodes) = 2 * n
            /\ \A i \in 1..n : pile.fixed_nodes[i].depth = pile.pile_nodes[i].depth
            /\ pile.pile_nodes[1].depth = FromInt(0)
            /\ n > 1 => pile.pile_nodes[n].depth = FromInt(pile.pile_length)
            /\ \A i \in 1..(n - 1) :
                   RSub(pile.pile_nodes[i + 1].depth, pile.pile_nodes[i].depth)
                       = Rat(pile.pile_length, n - 1)
            /\ ops.fixes = TagsOf(pile.fixed_nodes)
            /\ ops.fixes \cap TagsOf(pile.pile_nodes) = {}
            /\ Cardinality(truss) = n - 1
            /\ \A i \in 1..(n - 1) : \E e \in truss :
                   /\ e.nodes = <<pile.pile_nodes[i].tag, pile.pile_nodes[i + 1].tag>>
                   /\ e.material = pile.pile_structure_material
            /\ Cardinality(springs) = n
            /\ \A i \in 1..n : \E e \in springs :
                   e.nodes = <<pile.fixed_nodes[i].tag, pile.pile_nodes[i].tag>>

=============================================================================
